---- MODULE Spec2Model ----
(***************************************************************************)
(* Model of apple-auth-go: the token exchange client (clientSecret,        *)
(* ValidateCode, ValidateCodeWithRedirectURI, ValidateRefreshToken,        *)
(* validateRequest), the OAuth error table and GetUserInfoFromIDToken.     *)
(*                                                                         *)
(* A Go string is a sequence of units: a unit is a run of valid UTF-8 text *)
(* (a TLA+ string), the byte 0xFF (invalid in UTF-8) or the rune U+FFFD.   *)
(* A Go pointer or interface that may be nil is a record with an isNil     *)
(* flag, so that nil and non-nil values stay comparable.                   *)
(***************************************************************************)
EXTENDS Integers, Sequences, FiniteSets, TLC

VARIABLES
    auth,       \* the appleAuth receiver: AppID, TeamID, KeyID, KeyContent
    pc,         \* position of the current call
    op,         \* the operation called and its arguments
    secret,     \* result of clientSecret() in the current call
    timeNow,    \* what time.Now() gave clientSecret, in Unix seconds
    formQuery,  \* the url.Values built or received by the current call
    requests,   \* PostForm calls made on httpClient during the current call
    res,        \* what httpClient.PostForm returned: response and error
    ret         \* what the call returned (or that it panicked)

vars == <<auth, pc, op, secret, timeNow, formQuery, requests, res, ret>>

----------------------------------------------------------------------------
(* Go strings *)

XFF == "\\xff"
UFFFD == "\\ufffd"

Str(s) == <<s>>
EmptyStr == <<>>

\* encoding/json coerces strings to valid UTF-8, on Marshal and on Decode:
\* every invalid byte becomes the replacement rune.
RECURSIVE ToValidUTF8(_)
ToValidUTF8(s) ==
    IF s = <<>> THEN <<>>
    ELSE <<IF Head(s) = XFF THEN UFFFD ELSE Head(s)>> \o ToValidUTF8(Tail(s))

ValidUTF8(s) == \A i \in 1..Len(s) : s[i] # XFF

----------------------------------------------------------------------------
(* Constants of the package *)

validationEndpoint == "https://appleid.apple.com/auth/token"
appleAudience == "https://appleid.apple.com"
StatusOK == 200
SecretLifetime == 15776999

ErrorResponseTypeInvalidRequest == Str("invalid_request")
ErrorResponseTypeInvalidClient == Str("invalid_client")
ErrorResponseTypeInvalidGrant == Str("invalid_grant")
ErrorResponseTypeUnauthorizedClient == Str("unauthorized_client")
ErrorResponseTypeUnsupportedGrantType == Str("unsupported_grant_type")
ErrorResponseTypeInvalidScope == Str("invalid_scope")

\* A Go error value. kind "nil" is the nil error; "ErrorResponse" is the
\* struct of user.go; "errorString" is what errors.New and fmt.Errorf make;
\* "json" is a decode error of encoding/json; "transport" is an error of the
\* HTTP client; "key" is an error of pem/x509 reported by clientSecret.
GoError(kind, type, msg) == [kind |-> kind, Type |-> type, Message |-> msg]
NilError == GoError("nil", EmptyStr, EmptyStr)

ErrorResponse(type, msg) == GoError("ErrorResponse", type, Str(msg))

ErrorResponseInvalidRequest ==
    ErrorResponse(ErrorResponseTypeInvalidRequest,
        "The request is malformed, typically because it is missing a parameter, contains an unsupported parameter, includes multiple credentials, or uses more than one mechanism for authenticating the client.")
ErrorResponseInvalidClient ==
    ErrorResponse(ErrorResponseTypeInvalidClient,
        "The client authentication failed, typically due to a mismatched or invalid client identifier, invalid client secret (expired token, malformed claims, or invalid signature), or mismatched or invalid redirect URI.")
ErrorResponseInvalidGrant ==
    ErrorResponse(ErrorResponseTypeInvalidGrant,
        "The authorization grant or refresh token is invalid, typically due to a mismatched or invalid client identifier, invalid code (expired or previously used authorization code), or invalid refresh token.")
ErrorResponseUnauthorizedClient ==
    ErrorResponse(ErrorResponseTypeUnauthorizedClient,
        "The client is not authorized to use this authorization grant type.")
ErrorResponseUnsupportedGrantType ==
    ErrorResponse(ErrorResponseTypeUnsupportedGrantType,
        "the authenticated client is not authorized to use this grant type.")
ErrorResponseInvalidScope ==
    ErrorResponse(ErrorResponseTypeInvalidScope,
        "The requested scope is invalid.")

\* fmt.Errorf("unrecognized response error: %s", s)
UnrecognizedPrefix == "unrecognized response error: "
UnrecognizedError(s) ==
    GoError("errorString", EmptyStr, Str(UnrecognizedPrefix) \o s)

----------------------------------------------------------------------------
(* JSON documents and encoding/json *)

\* A JSON value: t is its JSON type; "fraction" is a number that is no
\* integer (1.5).
JVal(t, s, n, b) == [t |-> t, s |-> s, n |-> n, b |-> b]
JString(s) == JVal("string", s, 0, FALSE)
JNumber(n) == JVal("number", EmptyStr, n, FALSE)
JFraction == JVal("fraction", EmptyStr, 0, FALSE)
JBool(b) == JVal("bool", EmptyStr, 0, b)
JNull == JVal("null", EmptyStr, 0, FALSE)

\* A response body: kind "object" holds its members in document order
\* (a member is <<key, value>>); the other kinds are an empty body, bytes
\* that are no JSON, the literal null, and a JSON value that is no object.
Body(kind, members) == [kind |-> kind, members |-> members]
ObjectBody(members) == Body("object", members)

\* The decoder matches a member's key against the struct's json names
\* exactly or, failing that, case-insensitively.
FoldKey(k) ==
    CASE k = "Error" -> "error"
      [] k = "ERROR" -> "error"
      [] k = "Access_Token" -> "access_token"
      [] k = "Expires_In" -> "expires_in"
      [] OTHER -> k

\* Decoding one member into the struct value st (a record keyed by json
\* name); types gives each field's Go type. null leaves the field alone, a
\* value of another JSON type is an UnmarshalTypeError that leaves the field
\* alone and lets decoding go on, a key that names no field is skipped.
DecodeMember(st, types, m) ==
    LET f == FoldKey(m[1])
        v == m[2]
    IN  IF f \notin DOMAIN types THEN [val |-> st, bad |-> FALSE]
        ELSE IF v.t = "null" THEN [val |-> st, bad |-> FALSE]
        ELSE IF types[f] = "string" /\ v.t = "string"
            THEN [val |-> [st EXCEPT ![f] = ToValidUTF8(v.s)], bad |-> FALSE]
        ELSE IF types[f] = "int" /\ v.t = "number"
            THEN [val |-> [st EXCEPT ![f] = v.n], bad |-> FALSE]
        ELSE [val |-> st, bad |-> TRUE]

RECURSIVE DecodeMembers(_, _, _)
DecodeMembers(st, types, ms) ==
    IF ms = <<>> THEN [val |-> st, bad |-> FALSE]
    ELSE LET one == DecodeMember(st, types, Head(ms))
             rest == DecodeMembers(one.val, types, Tail(ms))
         IN  [val |-> rest.val, bad |-> one.bad \/ rest.bad]

JSONError(what) == GoError("json", EmptyStr, Str(what))

\* json.NewDecoder(body).Decode(&st): the decoded struct and the error.
JSONDecode(body, zero, types) ==
    CASE body.kind = "empty" -> [val |-> zero, err |-> JSONError("EOF")]
      [] body.kind = "malformed" ->
            [val |-> zero, err |-> JSONError("invalid character")]
      [] body.kind = "null" -> [val |-> zero, err |-> NilError]
      [] body.kind = "object" ->
            LET d == DecodeMembers(zero, types, body.members)
            IN  [val |-> d.val,
                 err |-> IF d.bad THEN JSONError("cannot unmarshal")
                         ELSE NilError]
      [] OTHER -> [val |-> zero, err |-> JSONError("cannot unmarshal")]

----------------------------------------------------------------------------
(* TokenResponse *)

TokenResponse(at, ex, id, rt, tt) ==
    [AccessToken |-> at, ExpiresIn |-> ex, IDToken |-> id,
     RefreshToken |-> rt, TokenType |-> tt]
ZeroTokenResponse == TokenResponse(EmptyStr, 0, EmptyStr, EmptyStr, EmptyStr)

\* The struct tags of TokenResponse: json name and Go type of each field.
TokenResponseTypes ==
    [access_token |-> "string", expires_in |-> "int", id_token |-> "string",
     refresh_token |-> "string", token_type |-> "string"]
ZeroTokenResponseJSON ==
    [access_token |-> EmptyStr, expires_in |-> 0, id_token |-> EmptyStr,
     refresh_token |-> EmptyStr, token_type |-> EmptyStr]

\* The struct filled in by the decoder, by json name, as a TokenResponse.
TokenResponseFromJSON_SwappedTags(st) ==
    TokenResponse(st.id_token, st.expires_in, st.access_token,
                  st.refresh_token, st.token_type)
TokenResponseFromJSON(st) ==
    TokenResponse(st.access_token, st.expires_in, st.id_token,
                  st.refresh_token, st.token_type)

\* json.Marshal(tokenResponse): the five members in field order, strings
\* coerced to valid UTF-8.
JSONMarshal(t) ==
    ObjectBody(<< <<"access_token", JString(ToValidUTF8(t.AccessToken))>>,
                  <<"expires_in", JNumber(t.ExpiresIn)>>,
                  <<"id_token", JString(ToValidUTF8(t.IDToken))>>,
                  <<"refresh_token", JString(ToValidUTF8(t.RefreshToken))>>,
                  <<"token_type", JString(ToValidUTF8(t.TokenType))>> >>)

\* var errorResponseBody struct { Error string `json:"error"` }
ErrorBodyTypes == [error |-> "string"]
ZeroErrorBody == [error |-> EmptyStr]

\* A *TokenResponse: nil, or a pointer to val.
NilTokenResponse == [isNil |-> TRUE, val |-> ZeroTokenResponse]
PtrTokenResponse(t) == [isNil |-> FALSE, val |-> t]

----------------------------------------------------------------------------
(* url.Values *)

\* map[string][]string; the zero value of the type is the nil map.
NilValues == [isNil |-> TRUE, m |-> <<>>]

\* A form value is a Go string; the client secret is the signed token, kept
\* as the record of what was signed instead of its three base64 segments.
NoJWT ==
    [signed |-> FALSE, alg |-> "", kid |-> "", iat |-> 0, exp |-> 0,
     iss |-> "", sub |-> "", aud |-> ""]
Text(s) == [text |-> s, jwt |-> NoJWT]
JWTText(j) == [text |-> EmptyStr, jwt |-> j]

\* Values.Add: v[key] = append(v[key], value). Writing to a nil map panics.
ValuesAdd(acc, key, value) ==
    IF acc.panicked \/ acc.form.isNil
        THEN [panicked |-> TRUE, form |-> acc.form]
    ELSE [panicked |-> FALSE,
          form |-> [isNil |-> FALSE,
                    m |-> IF key \in DOMAIN acc.form.m
                          THEN [acc.form.m EXCEPT ![key] = Append(@, value)]
                          ELSE [k \in DOMAIN acc.form.m \cup {key} |->
                                  IF k = key THEN <<value>>
                                  ELSE acc.form.m[k]]]]

RECURSIVE ValuesAddAll(_, _)
ValuesAddAll(acc, pairs) ==
    IF pairs = <<>> THEN acc
    ELSE ValuesAddAll(ValuesAdd(acc, Head(pairs)[1], Head(pairs)[2]),
                      Tail(pairs))

----------------------------------------------------------------------------
(* clientSecret *)

\* What a.KeyContent holds: a PEM block with a PKCS8 P-256 key; no PEM block
\* (pem.Decode returns nil); a PEM block that is no PKCS8 key; a PKCS8 key
\* that is no ECDSA key (SignedString refuses it).
KeyContents == {"valid", "nopem", "badpkcs8", "notecdsa"}

KeyError(what) == GoError("key", EmptyStr, Str(what))

clientSecret_SixMonths(a, now) ==
    CASE a.KeyContent = "nopem" ->
            [s |-> NoJWT,
             err |-> GoError("errorString", EmptyStr,
                             Str("empty block after decoding"))]
      [] a.KeyContent = "badpkcs8" ->
            [s |-> NoJWT, err |-> KeyError("x509: failed to parse private key")]
      [] a.KeyContent = "notecdsa" ->
            [s |-> NoJWT, err |-> KeyError("key is of invalid type")]
      [] OTHER ->
            [s |-> [signed |-> TRUE, alg |-> "ES256", kid |-> a.KeyID,
                    iat |-> now, exp |-> now + SecretLifetime + 1,
                    iss |-> a.TeamID, sub |-> a.AppID, aud |-> appleAudience],
             err |-> NilError]

clientSecret(a, now) ==
    CASE a.KeyContent = "nopem" ->
            [s |-> NoJWT,
             err |-> GoError("errorString", EmptyStr,
                             Str("empty block after decoding"))]
      [] a.KeyContent = "badpkcs8" ->
            [s |-> NoJWT, err |-> KeyError("x509: failed to parse private key")]
      [] a.KeyContent = "notecdsa" ->
            [s |-> NoJWT, err |-> KeyError("key is of invalid type")]
      [] OTHER ->
            [s |-> [signed |-> TRUE, alg |-> "ES256", kid |-> a.KeyID,
                    iat |-> now, exp |-> now + SecretLifetime,
                    iss |-> a.TeamID, sub |-> a.AppID, aud |-> appleAudience],
             err |-> NilError]

----------------------------------------------------------------------------
(* validateRequest *)

\* What httpClient.PostForm returned: (resp, err). closed is the state of
\* resp.Body. http.Client returns a non-nil response together with an error
\* only when following redirects failed, and then the body is already closed.
NoBody == Body("empty", <<>>)
PostFormResult(respNil, status, body, closed, err) ==
    [respNil |-> respNil, StatusCode |-> status, Body |-> body,
     closed |-> closed, err |-> err]
NoResult == PostFormResult(TRUE, 0, NoBody, FALSE, NilError)

TransportError == GoError("transport", EmptyStr, Str("dial tcp: connection refused"))
RedirectError == GoError("transport", EmptyStr, Str("stopped after 10 redirects"))

\* The switch on errorResponseBody.Error.
OAuthError_SwappedCases(s) ==
    CASE s = ErrorResponseTypeInvalidScope -> ErrorResponseInvalidScope
      [] s = ErrorResponseTypeUnsupportedGrantType -> ErrorResponseUnsupportedGrantType
      [] s = ErrorResponseTypeUnauthorizedClient -> ErrorResponseUnauthorizedClient
      [] s = ErrorResponseTypeInvalidGrant -> ErrorResponseInvalidClient
      [] s = ErrorResponseTypeInvalidClient -> ErrorResponseInvalidGrant
      [] s = ErrorResponseTypeInvalidRequest -> ErrorResponseInvalidRequest
      [] OTHER -> UnrecognizedError(s)
OAuthError_DefaultInvalidRequest(s) ==
    CASE s = ErrorResponseTypeInvalidScope -> ErrorResponseInvalidScope
      [] s = ErrorResponseTypeUnsupportedGrantType -> ErrorResponseUnsupportedGrantType
      [] s = ErrorResponseTypeUnauthorizedClient -> ErrorResponseUnauthorizedClient
      [] s = ErrorResponseTypeInvalidGrant -> ErrorResponseInvalidGrant
      [] s = ErrorResponseTypeInvalidClient -> ErrorResponseInvalidClient
      [] OTHER -> ErrorResponseInvalidRequest
OAuthError(s) ==
    CASE s = ErrorResponseTypeInvalidScope -> ErrorResponseInvalidScope
      [] s = ErrorResponseTypeUnsupportedGrantType -> ErrorResponseUnsupportedGrantType
      [] s = ErrorResponseTypeUnauthorizedClient -> ErrorResponseUnauthorizedClient
      [] s = ErrorResponseTypeInvalidGrant -> ErrorResponseInvalidGrant
      [] s = ErrorResponseTypeInvalidClient -> ErrorResponseInvalidClient
      [] s = ErrorResponseTypeInvalidRequest -> ErrorResponseInvalidRequest
      [] OTHER -> UnrecognizedError(s)

Returned(resp, err) == [resp |-> resp, err |-> err]

\* The status check and the two decodes: what validateRequest returns for a
\* response it received without error.
DecodeResponse_PartialOnError(status, body) ==
    IF status # StatusOK
    THEN LET d == JSONDecode(body, ZeroErrorBody, ErrorBodyTypes)
         IN  IF d.err # NilError THEN Returned(NilTokenResponse, d.err)
             ELSE Returned(NilTokenResponse, OAuthError(d.val.error))
    ELSE LET d == JSONDecode(body, ZeroTokenResponseJSON, TokenResponseTypes)
         IN  Returned(PtrTokenResponse(TokenResponseFromJSON(d.val)), d.err)
DecodeResponse(status, body) ==
    IF status # StatusOK
    THEN LET d == JSONDecode(body, ZeroErrorBody, ErrorBodyTypes)
         IN  IF d.err # NilError THEN Returned(NilTokenResponse, d.err)
             ELSE Returned(NilTokenResponse, OAuthError(d.val.error))
    ELSE LET d == JSONDecode(body, ZeroTokenResponseJSON, TokenResponseTypes)
         IN  IF d.err # NilError THEN Returned(NilTokenResponse, d.err)
             ELSE Returned(PtrTokenResponse(TokenResponseFromJSON(d.val)),
                           NilError)

\* validateRequest after PostForm returned r: the error check, the deferred
\* res.Body.Close() and the decoding. Gives the returned pair and the state
\* of the response body when the call has returned.
validateRequest_CloseOnSuccessOnly(r) ==
    IF r.err # NilError
    THEN [ret |-> Returned(NilTokenResponse, r.err), closed |-> r.closed]
    ELSE LET out == DecodeResponse(r.StatusCode, r.Body)
         IN  [ret |-> out, closed |-> (out.err = NilError)]
validateRequest(r) ==
    IF r.err # NilError
    THEN [ret |-> Returned(NilTokenResponse, r.err), closed |-> r.closed]
    ELSE [ret |-> DecodeResponse(r.StatusCode, r.Body), closed |-> TRUE]

----------------------------------------------------------------------------
(* The three exchanges: the form each builds *)

FormStart == [panicked |-> FALSE, form |-> NilValues]

\* var formQuery url.Values, then four calls of formQuery.Add.
ValidateCodeForm(a, cs, code) ==
    ValuesAddAll(FormStart,
        << <<"client_id", Text(Str(a.AppID))>>,
           <<"client_secret", JWTText(cs)>>,
           <<"code", Text(code)>>,
           <<"grant_type", Text(Str("authorization_code"))>> >>)

ValidateCodeWithRedirectURIForm(a, cs, code, redirectURI) ==
    ValuesAddAll(FormStart,
        << <<"client_id", Text(Str(a.AppID))>>,
           <<"client_secret", JWTText(cs)>>,
           <<"code", Text(code)>>,
           <<"grant_type", Text(Str("authorization_code"))>>,
           <<"redirect_uri", Text(redirectURI)>> >>)

ValidateRefreshTokenForm(a, cs, refreshToken) ==
    ValuesAddAll(FormStart,
        << <<"client_id", Text(Str(a.AppID))>>,
           <<"client_secret", JWTText(cs)>>,
           <<"refresh_token", Text(refreshToken)>>,
           <<"grant_type", Text(Str("refresh_token"))>> >>)

----------------------------------------------------------------------------
(* GetUserInfoFromIDToken *)

RealUserStatusUnsupported == 0
RealUserStatusUnknown == 1
RealUserStatusLikelyReal == 2

AppleUser(uid, email, verified, private, status) ==
    [UID |-> uid, Email |-> email, EmailVerified |-> verified,
     IsPrivateEmail |-> private, RealUserStatus |-> status]
ZeroAppleUser == AppleUser(EmptyStr, EmptyStr, FALSE, FALSE, 0)
NilAppleUser == [isNil |-> TRUE, val |-> ZeroAppleUser]

\* A claim the payload does not carry.
JAbsent == JVal("absent", EmptyStr, 0, FALSE)

\* The dynamic type of a claim in token.Claims(): the payload is unmarshalled
\* into a map[string]interface{}, where every JSON number is a float64.
GoTypeOf(v) ==
    CASE v.t = "string" -> "string"
      [] v.t = "bool" -> "bool"
      [] v.t = "number" -> "float64"
      [] v.t = "fraction" -> "float64"
      [] OTHER -> "nil"

\* v, ok := claims[key].(T)
TypeAssert(v, T) == GoTypeOf(v) = T

\* An identity token: defect "" is a well-formed token, whose payload carries
\* claims; the other defects are what jwt.Decode rejects.
IDToken(defect, claims) == [defect |-> defect, claims |-> claims]

TokenDecodeError == GoError("jwt", EmptyStr, Str("cannot decode the parts"))

\* The user the variants below build from the claims.
UserFromClaims(claims) ==
    AppleUser(
        IF TypeAssert(claims.sub, "string") THEN claims.sub.s ELSE EmptyStr,
        IF TypeAssert(claims.email, "string") THEN claims.email.s ELSE EmptyStr,
        IF TypeAssert(claims.email_verified, "bool")
            THEN claims.email_verified.b ELSE FALSE,
        IF TypeAssert(claims.is_private_email, "bool")
            THEN claims.is_private_email.b ELSE FALSE,
        RealUserStatusUnsupported)

GetUserInfoFromIDToken_UserOnDecodeError(idToken) ==
    IF idToken.defect # ""
    THEN [user |-> [isNil |-> FALSE, val |-> ZeroAppleUser],
          err |-> TokenDecodeError]
    ELSE [user |-> [isNil |-> FALSE, val |-> UserFromClaims(idToken.claims)],
          err |-> NilError]

GetUserInfoFromIDToken_StrictTypes(idToken) ==
    IF idToken.defect # ""
    THEN [user |-> NilAppleUser, err |-> TokenDecodeError]
    ELSE IF \/ idToken.claims.sub.t \notin {"string", "absent"}
            \/ idToken.claims.email.t \notin {"string", "absent"}
            \/ idToken.claims.email_verified.t \notin {"bool", "absent"}
            \/ idToken.claims.is_private_email.t \notin {"bool", "absent"}
            \/ idToken.claims.real_user_status.t \notin {"number", "absent"}
    THEN [user |-> NilAppleUser, err |-> TokenDecodeError]
    ELSE [user |-> [isNil |-> FALSE, val |-> UserFromClaims(idToken.claims)],
          err |-> NilError]

GetUserInfoFromIDToken(idToken) ==
    IF idToken.defect # ""
    THEN [user |-> NilAppleUser, err |-> TokenDecodeError]
    ELSE LET claims == idToken.claims
             sub == claims.sub
             email == claims.email
             ev == claims.email_verified
             ipe == claims.is_private_email
             rus == claims.real_user_status
         IN  [user |->
                [isNil |-> FALSE,
                 val |-> AppleUser(
                    IF TypeAssert(sub, "string") THEN sub.s ELSE EmptyStr,
                    IF TypeAssert(email, "string") THEN email.s ELSE EmptyStr,
                    IF TypeAssert(ev, "bool") THEN ev.b ELSE FALSE,
                    IF TypeAssert(ipe, "bool") THEN ipe.b ELSE FALSE,
                    IF TypeAssert(rus, "int")
                    THEN CASE rus.n = RealUserStatusLikelyReal ->
                                    RealUserStatusLikelyReal
                           [] rus.n = RealUserStatusUnknown ->
                                    RealUserStatusUnknown
                           [] OTHER -> RealUserStatusUnsupported
                    ELSE 0)],
              err |-> NilError]

----------------------------------------------------------------------------
(* Inputs *)

MaxNow == 1

AppIDs == {"appID", "com.example.app"}
TeamIDs == {"teamID", "TEAM123456"}
KeyIDs == {"keyID", "KEY1234567"}
Codes == {Str("code123"), EmptyStr}
RedirectURIs == {Str("https://r.example/cb"), EmptyStr}
RefreshTokens == {Str("refresh-token-as-jwt"), EmptyStr}

\* Forms handed to validateRequest directly, as its test does.
GivenForms ==
    {NilValues,
     [isNil |-> FALSE, m |-> [grant_type |-> <<Text(Str("refresh_token"))>>]]}

Statuses == {StatusOK, 201, 400, 500}

TokenStrings == {EmptyStr, Str("tok"), <<"tok", XFF>>, <<"tok", UFFFD>>}
ExpiresIns == {0, 3600}
TokenResponses ==
    {TokenResponse(at, ex, id, rt, tt) :
        at \in TokenStrings, ex \in ExpiresIns, id \in TokenStrings,
        rt \in {EmptyStr, Str("rtok"), <<XFF>>}, tt \in {EmptyStr, Str("bearer")}}

OAuthErrorCodes ==
    {ErrorResponseTypeInvalidRequest, ErrorResponseTypeInvalidClient,
     ErrorResponseTypeInvalidGrant, ErrorResponseTypeUnauthorizedClient,
     ErrorResponseTypeUnsupportedGrantType, ErrorResponseTypeInvalidScope}
ErrorStrings ==
    OAuthErrorCodes \cup
    {EmptyStr, Str("server_error"), Str("INVALID_GRANT"), <<"bad", UFFFD>>}

MemberKeys ==
    {"error", "Error", "access_token", "Access_Token", "expires_in", "other"}
MemberValues ==
    {JString(x) : x \in ErrorStrings \cup {Str("tok"), <<"bad", XFF>>}}
        \cup {JNumber(3600), JFraction, JBool(TRUE), JNull}
\* Members of which two are put in one object: a key twice, in either case.
PairedMembers ==
    {<<k, v>> : k \in {"error", "Error"},
                v \in {JString(ErrorResponseTypeInvalidGrant),
                       JString(ErrorResponseTypeInvalidScope),
                       JString(Str("server_error")), JNumber(3600), JNull}}

Bodies ==
    {Body(k, <<>>) : k \in {"empty", "malformed", "null", "array", "object"}}
        \cup {ObjectBody(<<m>>) : m \in MemberKeys \X MemberValues}
        \cup {ObjectBody(<<m1, m2>>) : m1 \in PairedMembers, m2 \in PairedMembers}
        \cup {JSONMarshal(t) : t \in TokenResponses}

\* What the transport can hand back.
PostFormResults ==
    {PostFormResult(FALSE, st, b, FALSE, NilError) : st \in Statuses, b \in Bodies}
        \cup {PostFormResult(TRUE, 0, NoBody, FALSE, TransportError)}
        \cup {PostFormResult(FALSE, 302, NoBody, TRUE, RedirectError)}

IDTokens ==
    {IDToken(d, [sub |-> JAbsent, email |-> JAbsent, email_verified |-> JAbsent,
                 is_private_email |-> JAbsent, real_user_status |-> JAbsent]) :
        d \in {"segments", "base64", "json"}}
    \cup
    {IDToken("", [sub |-> s, email |-> e, email_verified |-> ev,
                  is_private_email |-> ip, real_user_status |-> ru]) :
        s \in {JString(Str("123")), JAbsent, JNumber(123)},
        e \in {JString(Str("a@b.com")), JAbsent, JBool(TRUE)},
        ev \in {JBool(TRUE), JBool(FALSE), JAbsent, JString(Str("true"))},
        ip \in {JBool(TRUE), JBool(FALSE), JAbsent, JString(Str("true"))},
        ru \in {JNumber(0), JNumber(1), JNumber(2), JNumber(99), JFraction,
                JString(Str("2")), JAbsent, JNull}}

----------------------------------------------------------------------------
(* The state machine *)

NoClaims ==
    [sub |-> JAbsent, email |-> JAbsent, email_verified |-> JAbsent,
     is_private_email |-> JAbsent, real_user_status |-> JAbsent]
Op(name, code, redirectURI, refreshToken, idToken) ==
    [name |-> name, code |-> code, redirectURI |-> redirectURI,
     refreshToken |-> refreshToken, idToken |-> idToken]
NoIDToken == IDToken("segments", NoClaims)
NoOp == Op("", EmptyStr, EmptyStr, EmptyStr, NoIDToken)
NoSecret == [s |-> NoJWT, err |-> NilError]
NoReturn ==
    [panicked |-> FALSE, resp |-> NilTokenResponse, err |-> NilError,
     user |-> NilAppleUser]

\* New: the receiver the caller built; nothing is in progress.
Init ==
    /\ auth \in {[AppID |-> a, TeamID |-> t, KeyID |-> i, KeyContent |-> k] :
                    a \in AppIDs, t \in TeamIDs, i \in KeyIDs,
                    k \in KeyContents}
    /\ pc = "idle"
    /\ op = NoOp
    /\ secret = NoSecret
    /\ timeNow = 0
    /\ formQuery = NilValues
    /\ requests = <<>>
    /\ res = NoResult
    /\ ret = NoReturn

CallValidateCode ==
    /\ pc = "idle"
    /\ \E c \in Codes :
        op' = Op("ValidateCode", c, EmptyStr, EmptyStr, NoIDToken)
    /\ pc' = "clientSecret"
    /\ UNCHANGED <<auth, timeNow, secret, formQuery, requests, res, ret>>

CallValidateCodeWithRedirectURI ==
    /\ pc = "idle"
    /\ \E c \in Codes, r \in RedirectURIs :
        op' = Op("ValidateCodeWithRedirectURI", c, r, EmptyStr, NoIDToken)
    /\ pc' = "clientSecret"
    /\ UNCHANGED <<auth, timeNow, secret, formQuery, requests, res, ret>>

CallValidateRefreshToken ==
    /\ pc = "idle"
    /\ \E k \in RefreshTokens :
        op' = Op("ValidateRefreshToken", EmptyStr, EmptyStr, k, NoIDToken)
    /\ pc' = "clientSecret"
    /\ UNCHANGED <<auth, timeNow, secret, formQuery, requests, res, ret>>

\* validateRequest called with a form of the caller's.
CallValidateRequest ==
    /\ pc = "idle"
    /\ \E f \in GivenForms : formQuery' = f
    /\ op' = Op("validateRequest", EmptyStr, EmptyStr, EmptyStr, NoIDToken)
    /\ pc' = "PostForm"
    /\ UNCHANGED <<auth, timeNow, secret, requests, res, ret>>

\* ClientSecret without the check of err: the call goes on to the POST.
ClientSecret_PostAnyway ==
    /\ pc = "clientSecret"
    /\ \E now \in 0..MaxNow :
        /\ timeNow' = now
        /\ secret' = clientSecret(auth, now)
    /\ pc' = "PostForm"
    /\ UNCHANGED <<auth, op, formQuery, requests, res, ret>>

\* clientSecret, err := a.clientSecret(); if err != nil { return nil, err }
ClientSecret ==
    /\ pc = "clientSecret"
    /\ \E now \in 0..MaxNow :
        LET cs == clientSecret(auth, now)
        IN  /\ timeNow' = now
            /\ secret' = cs
            /\ IF cs.err # NilError
               THEN /\ ret' = [ret EXCEPT !.err = cs.err]
                    /\ pc' = "done"
               ELSE /\ ret' = ret
                    /\ pc' = "buildForm"
    /\ UNCHANGED <<auth, op, formQuery, requests, res>>

BuiltForm ==
    CASE op.name = "ValidateCode" -> ValidateCodeForm(auth, secret.s, op.code)
      [] op.name = "ValidateCodeWithRedirectURI" ->
            ValidateCodeWithRedirectURIForm(auth, secret.s, op.code, op.redirectURI)
      [] OTHER -> ValidateRefreshTokenForm(auth, secret.s, op.refreshToken)

\* The declaration of formQuery and the calls of Add, up to the call of
\* validateRequest; a panic ends the call.
BuildForm ==
    /\ pc = "buildForm"
    /\ formQuery' = BuiltForm.form
    /\ IF BuiltForm.panicked
       THEN /\ ret' = [ret EXCEPT !.panicked = TRUE]
            /\ pc' = "done"
       ELSE /\ ret' = ret
            /\ pc' = "PostForm"
    /\ UNCHANGED <<auth, timeNow, op, secret, requests, res>>

\* res, err := a.httpClient.PostForm(validationEndpoint, formQuery)
PostForm ==
    /\ pc = "PostForm"
    /\ requests' = Append(requests, [url |-> validationEndpoint, data |-> formQuery])
    /\ res' \in PostFormResults
    /\ pc' = "respond"
    /\ UNCHANGED <<auth, timeNow, op, secret, formQuery, ret>>

\* The rest of validateRequest, to its return.
Respond ==
    /\ pc = "respond"
    /\ LET v == validateRequest(res)
       IN  /\ ret' = [ret EXCEPT !.resp = v.ret.resp, !.err = v.ret.err]
           /\ res' = [res EXCEPT !.closed = v.closed]
    /\ pc' = "done"
    /\ UNCHANGED <<auth, timeNow, op, secret, formQuery, requests>>

CallGetUserInfoFromIDToken ==
    /\ pc = "idle"
    /\ \E t \in IDTokens :
        LET r == GetUserInfoFromIDToken(t)
        IN  /\ ret' = [ret EXCEPT !.user = r.user, !.err = r.err]
            /\ op' = Op("GetUserInfoFromIDToken", EmptyStr, EmptyStr, EmptyStr, t)
    /\ pc' = "done"
    /\ UNCHANGED <<auth, timeNow, secret, formQuery, requests, res>>

\* The caller has the result; the next call starts afresh.
Return ==
    /\ pc = "done"
    /\ pc' = "idle"
    /\ op' = NoOp
    /\ secret' = NoSecret
    /\ timeNow' = 0
    /\ formQuery' = NilValues
    /\ requests' = <<>>
    /\ res' = NoResult
    /\ ret' = NoReturn
    /\ UNCHANGED auth

Next ==
    \/ CallValidateCode
    \/ CallValidateCodeWithRedirectURI
    \/ CallValidateRefreshToken
    \/ CallValidateRequest
    \/ ClientSecret
    \/ BuildForm
    \/ PostForm
    \/ Respond
    \/ CallGetUserInfoFromIDToken
    \/ Return

Spec == Init /\ [][Next]_vars

----------------------------------------------------------------------------
(* Properties *)

\* validateRequest has returned.
RequestReturned == pc = "done" /\ requests # <<>>
\* ... and the transport had handed it a response without an error.
ResponseHandled == RequestReturned /\ res.err = NilError /\ ~res.respNil

ErrorResponses ==
    {ErrorResponseInvalidRequest, ErrorResponseInvalidClient,
     ErrorResponseInvalidGrant, ErrorResponseUnauthorizedClient,
     ErrorResponseUnsupportedGrantType, ErrorResponseInvalidScope}

DecodesAsTokenResponse(body) ==
    JSONDecode(body, ZeroTokenResponseJSON, TokenResponseTypes).err = NilError

\* C1: whatever the token endpoint call gave (any status, any body, a
\* transport error), validateRequest returns either a TokenResponse and a nil
\* error or a nil TokenResponse and an error, never both and never neither;
\* it returns a TokenResponse exactly when the call gave a response of
\* status 200 whose body decodes as a TokenResponse.
C1_TokenResponseOnlyFrom200 ==
    RequestReturned =>
        /\ ~ret.panicked
        /\ ret.resp.isNil <=> (ret.err # NilError)
        /\ ~ret.resp.isNil <=>
              /\ res.err = NilError
              /\ ~res.respNil
              /\ res.StatusCode = StatusOK
              /\ DecodesAsTokenResponse(res.Body)

C1_Witness ==
    /\ RequestReturned
    /\ res.StatusCode = StatusOK
    /\ ~ret.resp.isNil
    /\ ret.err = NilError
    /\ ret.resp.val.AccessToken = Str("tok")

\* C2: a response of a status other than 200 whose body is {"error": code},
\* code one of the six OAuth error codes, makes the exchange return the
\* ErrorResponse of that code: its Type is the code and its Message the
\* fixed message of the code.
C2_KnownCodeGivesItsErrorResponse ==
    \A code \in OAuthErrorCodes :
        (/\ ResponseHandled
         /\ res.StatusCode # StatusOK
         /\ res.Body = ObjectBody(<< <<"error", JString(code)>> >>))
        => /\ ret.resp.isNil
           /\ ret.err \in ErrorResponses
           /\ ret.err.Type = code
           /\ \A e \in ErrorResponses : e.Type = code => ret.err = e

C2_Witness ==
    /\ ResponseHandled
    /\ res.StatusCode = 400
    /\ res.Body = ObjectBody(<< <<"error", JString(Str("invalid_grant"))>> >>)
    /\ ret.err = ErrorResponseInvalidGrant

\* The error string the decoder leaves in errorResponseBody.
DecodedErrorBody == JSONDecode(res.Body, ZeroErrorBody, ErrorBodyTypes)

\* C3: a response of a status other than 200 whose body decodes to an error
\* string that is none of the six codes (the empty string of a missing field
\* included) makes the exchange return the unrecognized-error value, whose
\* text ends with that string as decoded, and which is no ErrorResponse.
C3_UnknownCodeGivesUnrecognizedError ==
    (/\ ResponseHandled
     /\ res.StatusCode # StatusOK
     /\ DecodedErrorBody.err = NilError
     /\ DecodedErrorBody.val.error \notin OAuthErrorCodes)
    => /\ ret.resp.isNil
       /\ ret.err.kind = "errorString"
       /\ ret.err.Message = <<UnrecognizedPrefix>> \o DecodedErrorBody.val.error
       /\ ret.err \notin ErrorResponses

C3_Witness ==
    /\ ResponseHandled
    /\ res.StatusCode = 500
    /\ res.Body = ObjectBody(<< <<"error", JString(Str("server_error"))>> >>)
    /\ ret.err.Message = <<UnrecognizedPrefix, "server_error">>

ValidTokenResponse(t) ==
    /\ ValidUTF8(t.AccessToken)
    /\ ValidUTF8(t.IDToken)
    /\ ValidUTF8(t.RefreshToken)
    /\ ValidUTF8(t.TokenType)

\* C4 as stated: for every TokenResponse t, a 200 response whose body is the
\* JSON serialization of t makes the exchange return a TokenResponse equal
\* to t.
C4_Original_RoundTripEveryTokenResponse ==
    \A t \in TokenResponses :
        (/\ ResponseHandled
         /\ res.StatusCode = StatusOK
         /\ res.Body = JSONMarshal(t))
        => /\ ~ret.resp.isNil
           /\ ret.resp.val = t

\* C4: for every TokenResponse t whose string fields are valid UTF-8, a 200
\* response whose body is the JSON serialization of t makes the exchange
\* return a TokenResponse whose five fields equal those of t.
C4_RoundTripValidUTF8 ==
    \A t \in TokenResponses :
        (/\ ResponseHandled
         /\ res.StatusCode = StatusOK
         /\ ValidTokenResponse(t)
         /\ res.Body = JSONMarshal(t))
        => /\ ~ret.resp.isNil
           /\ ret.err = NilError
           /\ ret.resp.val = t

C4_Witness ==
    /\ ResponseHandled
    /\ res.StatusCode = StatusOK
    /\ res.Body = JSONMarshal(TokenResponse(Str("tok"), 3600, <<"tok", UFFFD>>,
                                            Str("rtok"), Str("bearer")))
    /\ ret.resp.val = TokenResponse(Str("tok"), 3600, <<"tok", UFFFD>>,
                                    Str("rtok"), Str("bearer"))

\* A call of one of the three exchanges, with key material that signs, has
\* ended (by returning or by panicking).
ExchangeEnded(name) ==
    pc = "done" /\ op.name = name /\ auth.KeyContent = "valid"

PostedForm(fields) ==
    /\ Len(requests) = 1
    /\ requests[1].url = validationEndpoint
    /\ ~requests[1].data.isNil
    /\ requests[1].data.m = fields

\* C5: ValidateCode(c) with valid key material posts to the token endpoint
\* a form of exactly client_id = AppID, client_secret = the signed assertion,
\* code = c and grant_type = authorization_code.
C5_ValidateCodePostsFourFields ==
    ExchangeEnded("ValidateCode") =>
        PostedForm([client_id |-> <<Text(Str(auth.AppID))>>,
                    client_secret |-> <<JWTText(secret.s)>>,
                    code |-> <<Text(op.code)>>,
                    grant_type |-> <<Text(Str("authorization_code"))>>])

\* C6: ValidateCodeWithRedirectURI(c, r) with valid key material posts a
\* form of exactly the four fields of ValidateCode(c) and redirect_uri = r.
C6_ValidateCodeWithRedirectURIPostsFiveFields ==
    ExchangeEnded("ValidateCodeWithRedirectURI") =>
        PostedForm([client_id |-> <<Text(Str(auth.AppID))>>,
                    client_secret |-> <<JWTText(secret.s)>>,
                    code |-> <<Text(op.code)>>,
                    grant_type |-> <<Text(Str("authorization_code"))>>,
                    redirect_uri |-> <<Text(op.redirectURI)>>])

\* C7: ValidateRefreshToken(k) with valid key material posts a form of
\* exactly client_id = AppID, client_secret = the signed assertion,
\* refresh_token = k and grant_type = refresh_token.
C7_ValidateRefreshTokenPostsFourFields ==
    ExchangeEnded("ValidateRefreshToken") =>
        PostedForm([client_id |-> <<Text(Str(auth.AppID))>>,
                    client_secret |-> <<JWTText(secret.s)>>,
                    refresh_token |-> <<Text(op.refreshToken)>>,
                    grant_type |-> <<Text(Str("refresh_token"))>>])

\* C8: a call of ValidateCode, ValidateCodeWithRedirectURI or
\* ValidateRefreshToken whose client secret was signed has made exactly one
\* POST to the token endpoint when it ends.
C8_ExactlyOnePost ==
    \A name \in {"ValidateCode", "ValidateCodeWithRedirectURI",
                 "ValidateRefreshToken"} :
        ExchangeEnded(name) =>
            /\ Len(requests) = 1
            /\ requests[1].url = validationEndpoint

\* C9: when the transport handed validateRequest a response, the body of
\* that response is closed once the call has returned, whatever path it
\* returned on.
C9_BodyClosedOnReturn ==
    (RequestReturned /\ ~res.respNil) => res.closed

C9_Witness ==
    /\ ResponseHandled
    /\ res.StatusCode = 400
    /\ res.Body = Body("malformed", <<>>)
    /\ ret.err.kind = "json"
    /\ res.closed

\* C10: for a well-formed identity token that carries sub and email as
\* strings, email_verified and is_private_email as booleans and
\* real_user_status as the number 1 or 2, GetUserInfoFromIDToken returns no
\* error and a user whose fields equal the claims, RealUserStatus being
\* LikelyReal for 2 and Unknown for 1.
C10_WellFormedTokenGivesUser ==
    (/\ pc = "done"
     /\ op.name = "GetUserInfoFromIDToken"
     /\ op.idToken.defect = ""
     /\ op.idToken.claims.sub.t = "string"
     /\ op.idToken.claims.email.t = "string"
     /\ op.idToken.claims.email_verified.t = "bool"
     /\ op.idToken.claims.is_private_email.t = "bool"
     /\ op.idToken.claims.real_user_status.t = "number"
     /\ op.idToken.claims.real_user_status.n \in
            {RealUserStatusUnknown, RealUserStatusLikelyReal})
    => /\ ret.err = NilError
       /\ ~ret.user.isNil
       /\ ret.user.val =
            AppleUser(op.idToken.claims.sub.s,
                      op.idToken.claims.email.s,
                      op.idToken.claims.email_verified.b,
                      op.idToken.claims.is_private_email.b,
                      op.idToken.claims.real_user_status.n)

\* GetUserInfoFromIDToken has returned.
UserInfoReturned == pc = "done" /\ op.name = "GetUserInfoFromIDToken"

ExpectedString(v) == IF v.t = "string" THEN v.s ELSE EmptyStr
ExpectedBool(v) == IF v.t = "bool" THEN v.b ELSE FALSE

\* C12: for a well-formed identity token GetUserInfoFromIDToken returns a
\* user and no error whatever claims are present and whatever their JSON
\* types: sub, email, email_verified and is_private_email each give their
\* field when of the expected type and the zero value otherwise, one by one;
\* a real_user_status that is absent, of another type or a number other than
\* 1 and 2 gives RealUserStatusUnsupported.
C12_TypeTolerantClaims ==
    (UserInfoReturned /\ op.idToken.defect = "")
    => /\ ret.err = NilError
       /\ ~ret.user.isNil
       /\ ret.user.val.UID = ExpectedString(op.idToken.claims.sub)
       /\ ret.user.val.Email = ExpectedString(op.idToken.claims.email)
       /\ ret.user.val.EmailVerified =
            ExpectedBool(op.idToken.claims.email_verified)
       /\ ret.user.val.IsPrivateEmail =
            ExpectedBool(op.idToken.claims.is_private_email)
       /\ (\/ op.idToken.claims.real_user_status.t # "number"
           \/ op.idToken.claims.real_user_status.n \notin
                {RealUserStatusUnknown, RealUserStatusLikelyReal})
          => ret.user.val.RealUserStatus = RealUserStatusUnsupported

C12_Witness ==
    /\ UserInfoReturned
    /\ op.idToken.defect = ""
    /\ op.idToken.claims.sub = JNumber(123)
    /\ op.idToken.claims.email = JString(Str("a@b.com"))
    /\ op.idToken.claims.email_verified = JString(Str("true"))
    /\ op.idToken.claims.is_private_email = JBool(TRUE)
    /\ op.idToken.claims.real_user_status = JNumber(99)
    /\ ret.err = NilError
    /\ ret.user.val =
        AppleUser(EmptyStr, Str("a@b.com"), FALSE, TRUE, RealUserStatusUnsupported)

\* C13: a client secret that was signed has header alg = ES256 and kid =
\* the KeyID of the client, and claims issuer = TeamID, subject = AppID,
\* audience = https://appleid.apple.com, issuedAt = the time of signing and
\* expiresAt 15,776,999 seconds after issuedAt; and the step that signs
\* leaves AppID, TeamID, KeyID and KeyContent of the client as they were.
C13_ClientSecretClaims ==
    /\ [](secret.s.signed =>
            /\ secret.err = NilError
            /\ secret.s.alg = "ES256"
            /\ secret.s.kid = auth.KeyID
            /\ secret.s.iss = auth.TeamID
            /\ secret.s.sub = auth.AppID
            /\ secret.s.aud = "https://appleid.apple.com"
            /\ secret.s.iat = timeNow
            /\ secret.s.exp - secret.s.iat = 15776999)
    /\ [][pc = "clientSecret" => auth' = auth]_vars

C13_Witness ==
    /\ pc = "buildForm"
    /\ secret.s.signed
    /\ auth.AppID = "com.example.app"
    /\ auth.TeamID = "TEAM123456"
    /\ timeNow = 1
    /\ secret.s.iat = 1
    /\ secret.s.exp = 15777000
    /\ secret.s.iss = "TEAM123456"
    /\ secret.s.sub = "com.example.app"

ExchangeNames ==
    {"ValidateCode", "ValidateCodeWithRedirectURI", "ValidateRefreshToken"}

\* C14: in a call of one of the three exchanges nothing is posted, and the
\* call is not even on its way to the POST, unless the client secret was
\* signed before; and a call whose signing failed (no PEM block in
\* KeyContent, no parsable PKCS8 key in the block, a key that cannot sign)
\* returns that error and a nil TokenResponse without any request made.
C14_SecretBeforePostAndNoPostOnFailure ==
    op.name \in ExchangeNames =>
        /\ (requests # <<>> \/ pc \in {"buildForm", "PostForm", "respond"})
            => (secret.s.signed /\ secret.err = NilError)
        /\ (pc = "done" /\ auth.KeyContent # "valid")
            => /\ ret.err # NilError
               /\ ret.err = secret.err
               /\ ret.resp.isNil
               /\ ~ret.panicked
               /\ requests = <<>>

C14_Witness ==
    /\ pc = "done"
    /\ op.name = "ValidateRefreshToken"
    /\ auth.KeyContent = "nopem"
    /\ ret.err = GoError("errorString", EmptyStr, Str("empty block after decoding"))
    /\ ret.resp.isNil
    /\ requests = <<>>

====
